---- MODULE Spec2Model ----
(***************************************************************************)
(* A model of purr/fragment-bot: the two TTL caches (services/rates.py,    *)
(* services/getgems.py), their background refresh loops, the query tasks   *)
(* that read them (bot.py, services/price_converter.py,                    *)
(* services/result_articles.py) and the query classifier (bot.py).         *)
(*                                                                         *)
(* The program runs on one asyncio event loop: code between two awaits     *)
(* that really suspend (an HTTP round trip, asyncio.sleep) runs            *)
(* atomically.  Every action below is one such segment.                    *)
(*                                                                         *)
(* Units.  A price in USD is an integer count of 10^-5 USD, so that        *)
(* round(x, 4) has digits to drop.  fullPrice is counted in units of 10^7  *)
(* nanoTON, and the price in TON the code derives from it (fullPrice /     *)
(* 10^9) is the fraction <<fullPrice, 100>>; an amount is such a fraction  *)
(* <<numerator, denominator>> wherever it is not a rate.  Time is counted  *)
(* in ticks, TicksPerSecond to the second, so that int() of an age has a   *)
(* fraction to drop.  An Optional value is <<>> (None) or <<v>>.           *)
(***************************************************************************)
EXTENDS Integers, Sequences, FiniteSets, TLC

\* ------------------------------------------------------------- bounds

NumTasks == 1
TicksPerSecond == 2
MaxLen == 5
MaxDays == 21

\* ------------------------------------------------- program constants

TON_RATE_CACHE_DURATION == 120
FLOOR_PRICE_CACHE_DURATION == 300
EMPTY_QUERY_CACHE_TIME == 5
INVALID_QUERY_CACHE_TIME == 300
ERROR_CACHE_TIME == 5
UNAVAILABLE_USERNAME_CACHE_TIME == 300
NUMERIC_QUERY_CACHE_TIME == 30
USERNAME_RESULT_CACHE_TIME == 300
DEFAULT_DECIMAL_PLACES == 2
TON_DECIMAL_PLACES == 4

\* ------------------------------------------------------------ values

None == <<>>
Some(v) == <<v>>
Val(o) == o[1]

Tasks == 1..NumTasks

\* What fetch_coingecko_price / fetch_binance_price can return: None on any
\* failure, else the price.
CoingeckoResults == {None, Some(500000)}
BinanceResults == {None, Some(700000)}
\* The same, with prices that round(x, 4) changes and a reply without a
\* price, which fetch_binance_price reads as 0.
CoingeckoPrices == {None, Some(500000), Some(250000), Some(123456)}
BinancePrices == {None, Some(700000), Some(350000), Some(700006), Some(0)}

RateTTL == TON_RATE_CACHE_DURATION * TicksPerSecond
FloorTTL == FLOOR_PRICE_CACHE_DURATION * TicksPerSecond
\* Every age above the cap takes the same branches as the cap itself.
RateAgeCap == RateTTL + 1
FloorAgeCap == (FLOOR_PRICE_CACHE_DURATION + 1) * TicksPerSecond

Min(a, b) == IF a < b THEN a ELSE b
Max(a, b) == IF a > b THEN a ELSE b

\* ------------------------------------------------------------- state

VARIABLES
    rates_cache,        \* [ton_usd, source1, source2, age, w]
    floor_price_cache,  \* [price, number, item_address, age, w]
    rate_loop,          \* start_rate_update_loop: [pc, sleep, inflight]
    floor_loop,         \* start_floor_price_update_loop: same
    tasks,              \* the query-handling tasks
    rate_fetched,       \* what the two fetches of the last update_rates returned
    floor_fetched,      \* what fetch_floor_price returned to the last update_floor_price
    query,              \* classifier: the raw query text, a sequence of characters
    outcome,            \* classifier: what handle_inline_query did with it
    handler             \* handle_query: [pc, query, html_text, keyboard_rows, requests, answer]

vars == <<rates_cache, floor_price_cache, rate_loop, floor_loop, tasks,
          rate_fetched, floor_fetched, query, outcome, handler>>

\* ------------------------------------------------- services/rates.py

\* A variant that drops the digits after the fourth decimal.
Round4_truncating(n, d) == 10 * (n \div (10 * d))

\* round(n/d, 4) of a value of n/d units of 10^-5, in units of 10^-5:
\* Python rounds to the nearest multiple of 10^-4, a tie to the even one.
Round4(n, d) ==
    LET q == n \div (10 * d)
        r == n - q * 10 * d
        up == \/ 2 * r > 10 * d
              \/ 2 * r = 10 * d /\ q % 2 = 1
    IN  10 * (IF up THEN q + 1 ELSE q)

\* A variant that stores None when both fetches fail.
Composite_no_fallback(prev, a, b) ==
    IF a # None /\ b # None THEN Some(Round4(Val(a) + Val(b), 2))
    ELSE IF a # None THEN Some(Round4(Val(a), 1))
    ELSE IF b # None THEN Some(Round4(Val(b), 1))
    ELSE None

\* rates.py 74-84: the composite after a round whose fetches returned a, b.
Composite(prev, a, b) ==
    IF a # None /\ b # None THEN Some(Round4(Val(a) + Val(b), 2))
    ELSE IF a # None THEN Some(Round4(Val(a), 1))
    ELSE IF b # None THEN Some(Round4(Val(b), 1))
    ELSE IF prev # None THEN Some(Round4(Val(prev), 1))
    ELSE None

\* A variant that assigns last_update only when a source has answered.
update_rates_stamping_on_success(c, a, b) ==
    LET comp == Composite(c.ton_usd, a, b)
    IN  [ton_usd |-> comp, source1 |-> a, source2 |-> b,
         age |-> IF a = None /\ b = None THEN c.age ELSE 0,
         w |-> {"source1", "source2"}
               \cup (IF a = None /\ b = None THEN {} ELSE {"last_update"})
               \cup (IF comp # None THEN {"ton_usd"} ELSE {})]

\* A variant that keeps the value of a source whose fetch failed.
update_rates_retaining(c, a, b) ==
    LET comp == Composite(c.ton_usd, a, b)
    IN  [ton_usd |-> comp,
         source1 |-> IF a # None THEN a ELSE c.source1,
         source2 |-> IF b # None THEN b ELSE c.source2,
         age |-> 0,
         w |-> {"source1", "source2", "last_update"}
               \cup (IF comp # None THEN {"ton_usd"} ELSE {})]

\* A variant that is suspended between the assignment of the composite and
\* those of the sources: the cache as a reader finds it in between.
update_rates_partial(c, a, b) ==
    [c EXCEPT !.ton_usd = Composite(c.ton_usd, a, b), !.w = {"ton_usd"}]

\* rates.py 70-86, the part of update_rates after the gather: no await in it.
\* w is the set of keys these lines assign.
update_rates(c, a, b) ==
    LET comp == Composite(c.ton_usd, a, b)
    IN  [ton_usd |-> comp, source1 |-> a, source2 |-> b, age |-> 0,
         w |-> {"source1", "source2", "last_update"}
               \cup (IF comp # None THEN {"ton_usd"} ELSE {})]

\* rates.py 95-98: the test of get_ton_price.
RateNeedsRefresh(c) == c.ton_usd = None \/ c.age > RateTTL

\* A convert_usd_to_ton that divides by a composite of 0.
convert_usd_to_ton_unguarded(c, usd) ==
    IF c.ton_usd = None THEN None
    ELSE Some(<<usd[1] * 100000, usd[2] * Val(c.ton_usd)>>)

\* rates.py 109-113: usd / rate, on fractions; a fraction over 0 stands
\* for the ZeroDivisionError of the division.
convert_usd_to_ton(c, usd) ==
    IF c.ton_usd = None \/ c.ton_usd = Some(0) THEN None
    ELSE Some(<<usd[1] * 100000, usd[2] * Val(c.ton_usd)>>)

\* rates.py 116-120: ton * rate, on fractions.
convert_ton_to_usd(c, ton) ==
    IF c.ton_usd = None THEN None
    ELSE Some(<<ton[1] * Val(c.ton_usd), ton[2] * 100000>>)

\* ----------------------------------------------- services/getgems.py

GoodResponse ==
    [failed |-> FALSE, json_ok |-> TRUE, status |-> 200, errors |-> FALSE,
     data |-> TRUE, search |-> TRUE, edges |-> 1, node |-> TRUE, sale |-> TRUE,
     fullPrice |-> Some(850), name |-> "+888 0001",
     address |-> Some("EQitem1")]

OtherResponse ==
    [GoodResponse EXCEPT !.fullPrice = Some(900),
                         !.name = "+888 0002", !.address = Some("EQitem2")]

\* One response for every return None of fetch_floor_price.
FailedResponses ==
    { [GoodResponse EXCEPT !.failed = TRUE],
      [GoodResponse EXCEPT !.json_ok = FALSE],
      [GoodResponse EXCEPT !.status = 500],
      [GoodResponse EXCEPT !.errors = TRUE],
      [GoodResponse EXCEPT !.data = FALSE],
      [GoodResponse EXCEPT !.search = FALSE],
      [GoodResponse EXCEPT !.edges = 0],
      [GoodResponse EXCEPT !.node = FALSE],
      [GoodResponse EXCEPT !.sale = FALSE],
      [GoodResponse EXCEPT !.fullPrice = None] }

FloorResponses == {GoodResponse, OtherResponse} \cup FailedResponses

\* getgems.py 47-151: None, or the dict {price, number, item_address}.
\* fullPrice = None stands for a text int() rejects.
fetch_floor_price(r) ==
    IF r.failed THEN None
    ELSE IF ~r.json_ok THEN None
    ELSE IF r.status # 200 THEN None
    ELSE IF r.errors THEN None
    ELSE IF ~r.data THEN None
    ELSE IF ~r.search THEN None
    ELSE IF r.edges = 0 THEN None
    ELSE IF ~r.node THEN None
    ELSE IF ~r.sale THEN None
    ELSE IF r.fullPrice = None THEN None
    ELSE Some([price |-> <<Val(r.fullPrice), 100>>, number |-> r.name,
               item_address |-> r.address])

\* A variant that assigns last_update whether or not there is data.
update_floor_price_touching(c, floor_data) ==
    IF floor_data # None
    THEN [price |-> Some(Val(floor_data).price),
          number |-> Some(Val(floor_data).number),
          item_address |-> Val(floor_data).item_address,
          age |-> 0,
          w |-> {"price", "number", "item_address", "last_update"}]
    ELSE [c EXCEPT !.age = 0]

\* getgems.py 161-173: no await between the four assignments.
update_floor_price(c, floor_data) ==
    IF floor_data # None
    THEN [price |-> Some(Val(floor_data).price),
          number |-> Some(Val(floor_data).number),
          item_address |-> Val(floor_data).item_address,
          age |-> 0,
          w |-> {"price", "number", "item_address", "last_update"}]
    ELSE c

\* getgems.py 183-187: the test of get_floor_price; cache_age is int(...).
FloorNeedsRefresh(c) ==
    c.price = None \/ (c.age \div TicksPerSecond) > FLOOR_PRICE_CACHE_DURATION

\* ------------------------------------------------------ the readers

\* The keys of rates_cache a reader's result is built from:
\* result_articles.py 327-338 and price_converter.py 49-69, 94-95.
RateFieldsUsed(c) ==
    IF c.ton_usd = None THEN {"ton_usd"} ELSE {"ton_usd", "source1", "source2"}

\* The keys of floor_price_cache getgems.py 244-255 reads.
FloorFieldsUsed(c) ==
    IF c.price = None THEN {"price"} ELSE {"price", "number", "item_address"}

\* Several keys are used and the last refresh that wrote did not write them all.
Torn(used, written) == Cardinality(used) > 1 /\ ~(used \subseteq written)

\* ------------------------------------------------- number formatting

DecimalDigits == <<"0", "1", "2", "3", "4", "5", "6", "7", "8", "9">>

\* str(n) of an integer 0 <= n
RECURSIVE DecimalText(_)
DecimalText(n) ==
    IF n < 10 THEN <<DecimalDigits[n + 1]>>
    ELSE DecimalText(n \div 10) \o <<DecimalDigits[(n % 10) + 1]>>

\* The remainder of n / d after k decimals, and the value of n / d cut
\* after k decimals, in units of 10^-k (long division, so that no
\* intermediate value leaves 32 bits).
RECURSIVE RemAfter(_, _, _)
RemAfter(n, d, k) ==
    IF k = 0 THEN n % d ELSE (RemAfter(n, d, k - 1) * 10) % d

RECURSIVE CutAfter(_, _, _)
CutAfter(n, d, k) ==
    IF k = 0 THEN n \div d
    ELSE 10 * CutAfter(n, d, k - 1) + ((RemAfter(n, d, k - 1) * 10) \div d)

\* The value of n / d at k decimals as the format specification .kf rounds
\* it: to the nearest, a tie to the even digit.
RoundAt(n, d, k) ==
    LET q == CutAfter(n, d, k)
        r == RemAfter(n, d, k)
    IN  IF 2 * r > d \/ (2 * r = d /\ q % 2 = 1) THEN q + 1 ELSE q

\* The integer part with commas between the groups of three digits.
RECURSIVE Grouped(_)
Grouped(n) ==
    IF n < 1000 THEN DecimalText(n)
    ELSE Grouped(n \div 1000)
             \o <<",", DecimalDigits[((n \div 100) % 10) + 1],
                       DecimalDigits[((n \div 10) % 10) + 1],
                       DecimalDigits[(n % 10) + 1]>>

\* The k decimals of a value v in units of 10^-k.
RECURSIVE Decimals(_, _)
Decimals(v, k) ==
    IF k = 0 THEN <<>>
    ELSE Decimals(v \div 10, k - 1) \o <<DecimalDigits[(v % 10) + 1]>>

\* str.rstrip("0")
RECURSIVE rstrip_zeros(_)
rstrip_zeros(s) ==
    IF s # <<>> /\ s[Len(s)] = "0" THEN rstrip_zeros(SubSeq(s, 1, Len(s) - 1))
    ELSE s

RECURSIVE Power10(_)
Power10(k) == IF k = 0 THEN 1 ELSE 10 * Power10(k - 1)

\* A format_number that keeps the zeros at the end.
format_number_padded(number, decimal_places) ==
    LET v == RoundAt(number[1], number[2], decimal_places)
    IN  Grouped(v \div Power10(decimal_places))
            \o (IF decimal_places > 0
                THEN <<".">> \o Decimals(v % Power10(decimal_places), decimal_places)
                ELSE <<>>)

\* price_converter.py 22-31, of the fraction number = <<n, d>>
format_number(number, decimal_places) ==
    LET v == RoundAt(number[1], number[2], decimal_places)
        whole == Grouped(v \div Power10(decimal_places))
        decimals == rstrip_zeros(Decimals(v % Power10(decimal_places),
                                          decimal_places))
    IN  IF decimal_places = 0 THEN whole
        ELSE IF decimals = <<>> THEN whole
        ELSE whole \o <<".">> \o decimals

\* price_converter.py 94-108: the amounts in the text of the conversion.
conversion_message(rc, amount) ==
    IF \/ convert_usd_to_ton(rc, amount) = None
       \/ convert_ton_to_usd(rc, amount) = None
    THEN None
    ELSE IF Val(convert_usd_to_ton(rc, amount))[2] = 0 THEN None
    ELSE Some([amount |-> format_number(amount, DEFAULT_DECIMAL_PLACES),
               ton |-> format_number(Val(convert_usd_to_ton(rc, amount)),
                                     TON_DECIMAL_PLACES),
               usd |-> format_number(Val(convert_ton_to_usd(rc, amount)),
                                     DEFAULT_DECIMAL_PLACES)])

\* result_articles.py 325-348
get_ton_rate_article(c) ==
    IF c.ton_usd = None THEN "ton_rate_unavailable" ELSE "ton_rate"

\* getgems.py 244-287 after get_floor_price returned: line 262 formats
\* price_usd with :.2f, which raises TypeError on None.
get_number_floor_price_message(fc, rc) ==
    IF fc.price = None THEN "number_floor_price_unavailable"
    ELSE IF convert_ton_to_usd(rc, Val(fc.price)) = None THEN "TypeError"
    ELSE "number_floor_price"

\* price_converter.py 44-69 after get_ton_price returned, with
\* create_dual_conversion_article 94-98.
create_price_conversion_result(rc, amount) ==
    IF rc.ton_usd = None THEN <<"price_error">>
    ELSE IF convert_usd_to_ton(rc, amount) = None THEN <<"price_error">>
    ELSE IF Val(convert_usd_to_ton(rc, amount))[2] = 0
         THEN <<"ZeroDivisionError">>
    ELSE IF convert_ton_to_usd(rc, amount) = None THEN <<"price_error">>
    ELSE <<"price_conversion">>

Amounts == {<<100, 1>>}

IdleTask ==
    [pc |-> "idle", kind |-> "none", amount |-> <<0, 1>>,
     rate_inflight |-> 0, floor_inflight |-> 0,
     held |-> "", ton_price |-> None, result |-> <<>>, message |-> None,
     cache_time |-> 0, cache_age |-> None,
     torn |-> FALSE, mixed |-> FALSE, rate_dirty |-> FALSE]

\* bot.py 119-122: the numeric path from the return of get_ton_price on.
NumericFinish(tk, rc) ==
    [tk EXCEPT !.pc = IF create_price_conversion_result(rc, tk.amount)
                             = <<"ZeroDivisionError">>
                      THEN "failed" ELSE "answering",
               !.rate_inflight = 0,
               !.ton_price = rc.ton_usd,
               !.result = create_price_conversion_result(rc, tk.amount),
               !.message = conversion_message(rc, tk.amount),
               !.cache_time = NUMERIC_QUERY_CACHE_TIME,
               !.torn = Torn(RateFieldsUsed(rc), rc.w)]

\* bot.py 110-114: the empty path from the return of get_floor_price on.
EmptyFinish(tk, rc, fc) ==
    LET art == get_number_floor_price_message(fc, rc)
    IN  [tk EXCEPT !.pc = IF art = "TypeError" THEN "failed" ELSE "answering",
                   !.floor_inflight = 0,
                   !.result = IF art = "TypeError" THEN <<>>
                              ELSE <<"empty_query", tk.held, art>>,
                   !.cache_time = IF art = "TypeError" THEN 0
                                  ELSE EMPTY_QUERY_CACHE_TIME,
                   !.torn = tk.torn \/ Torn(FloorFieldsUsed(fc), fc.w),
                   !.mixed = tk.rate_dirty /\ fc.price # None,
                   !.rate_dirty = FALSE]

\* bot.py 109-110: the empty path from the return of get_ton_price up to
\* the await in get_floor_price, or to the end when that does not refresh.
EmptyAfterRate(tk, rc, fc) ==
    LET tk1 == [tk EXCEPT !.rate_inflight = 0,
                          !.held = get_ton_rate_article(rc),
                          !.torn = Torn(RateFieldsUsed(rc), rc.w),
                          !.rate_dirty = FALSE]
    IN  IF FloorNeedsRefresh(fc)
        THEN [tk1 EXCEPT !.pc = "floor_wait", !.floor_inflight = 1]
        ELSE [EmptyFinish(tk1, rc, fc) EXCEPT
                  !.cache_age = Some(fc.age \div TicksPerSecond)]

\* A task that holds an article built from rates_cache sees it rewritten.
MarkRateWritten(tk) ==
    IF tk.pc = "floor_wait" THEN [tk EXCEPT !.rate_dirty = TRUE] ELSE tk

\* ------------------------------------------------- the refresh loops

\* A variant driven by the timer alone, whatever the loop is doing.
LoopMayStart_on_timer(loop) == loop.sleep = 0

\* rates.py 123-132 / getgems.py 290-299: the loop calls update only from
\* the top of the loop, when the task has just been created or its sleep
\* has returned.
LoopMayStart(loop) ==
    loop.pc = "starting" \/ (loop.pc = "sleeping" /\ loop.sleep = 0)

LoopStartRefresh(loop) ==
    [loop EXCEPT !.pc = "refreshing", !.inflight = @ + 1]

\* A variant whose refresh is not awaited: the loop sleeps while it runs.
LoopAfterRefresh_detached(loop, ttl) ==
    [loop EXCEPT !.pc = "sleeping", !.sleep = ttl]

LoopAfterRefresh(loop, ttl) ==
    [loop EXCEPT !.pc = "sleeping", !.sleep = ttl, !.inflight = @ - 1]

\* ------------------------------------------------ the classifier (bot.py)

\* The characters a query is made of: a letter of each case, a digit, the
\* characters the handler treats specially, and a period.
Alphabet == {"a", "Z", "1", "_", "@", " ", "\n", "."}

Strings == UNION { [1..n -> Alphabet] : n \in 0..MaxLen }

LowerLetters ==
    {"a", "b", "c", "d", "e", "f", "g", "h", "i", "j", "k", "l", "m",
     "n", "o", "p", "q", "r", "s", "t", "u", "v", "w", "x", "y", "z"}
Digits == {"0", "1", "2", "3", "4", "5", "6", "7", "8", "9"}
Whitespace == {" ", "\n"}

Front(s) == SubSeq(s, 1, Len(s) - 1)
Last(s) == s[Len(s)]

\* str.strip()
RECURSIVE lstrip(_)
lstrip(s) ==
    IF s # <<>> /\ Head(s) \in Whitespace THEN lstrip(Tail(s)) ELSE s

RECURSIVE rstrip(_)
rstrip(s) ==
    IF s # <<>> /\ Last(s) \in Whitespace THEN rstrip(Front(s)) ELSE s

strip(s) == rstrip(lstrip(s))

\* str.replace(old, ""): every occurrence of old goes.
replace(s, old) == SelectSeq(s, LAMBDA ch : ch # old)

UpperLetters ==
    <<"A", "B", "C", "D", "E", "F", "G", "H", "I", "J", "K", "L", "M",
      "N", "O", "P", "Q", "R", "S", "T", "U", "V", "W", "X", "Y", "Z">>
LowerOfUpper ==
    <<"a", "b", "c", "d", "e", "f", "g", "h", "i", "j", "k", "l", "m",
      "n", "o", "p", "q", "r", "s", "t", "u", "v", "w", "x", "y", "z">>

lower_char(ch) ==
    IF \E i \in 1..26 : UpperLetters[i] = ch
    THEN LowerOfUpper[CHOOSE i \in 1..26 : UpperLetters[i] = ch]
    ELSE ch

\* str.lower()
RECURSIVE lower(_)
lower(s) ==
    IF s = <<>> THEN <<>>
    ELSE <<lower_char(Head(s))>> \o lower(Tail(s))

\* str.startswith(prefix)
startswith(s, prefix) ==
    Len(s) >= Len(prefix) /\ SubSeq(s, 1, Len(prefix)) = prefix

\* sub in s
contains(s, sub) ==
    \E i \in 0..(Len(s) - Len(sub)) : SubSeq(s, i + 1, i + Len(sub)) = sub

\* s.replace(old, "") for a text old of one or more characters.
RECURSIVE replace_text(_, _)
replace_text(s, old) ==
    IF s = <<>> THEN <<>>
    ELSE IF startswith(s, old)
         THEN replace_text(SubSeq(s, Len(old) + 1, Len(s)), old)
         ELSE <<Head(s)>> \o replace_text(Tail(s), old)

DigitChars == <<"0", "1", "2", "3", "4", "5", "6", "7", "8", "9">>

\* str(n) of an integer n >= 0
RECURSIVE str_int(_)
str_int(n) ==
    IF n < 10 THEN <<DigitChars[n + 1]>>
    ELSE str_int(n \div 10) \o <<DigitChars[(n % 10) + 1]>>

RECURSIVE digits_value(_)
digits_value(s) ==
    IF s = <<>> THEN 0
    ELSE 10 * digits_value(Front(s))
            + (CHOOSE v \in 0..9 : DigitChars[v + 1] = Last(s))

\* int(text) of a text of decimal digits with white space around it; None
\* where int raises ValueError.
int_text(s) ==
    LET t == strip(s)
    IN  IF t # <<>> /\ \A i \in 1..Len(t) : t[i] \in Digits
        THEN Some(digits_value(t))
        ELSE None

\* str.replace(old, new) of one character by another
replace_char(s, old, new) ==
    [i \in 1..Len(s) |-> IF s[i] = old THEN new ELSE s[i]]

\* The number of characters of s after its first period.
DecimalsOf(s) ==
    IF \E i \in 1..Len(s) : s[i] = "."
    THEN Len(s) - (CHOOSE i \in 1..Len(s) :
                       s[i] = "." /\ \A j \in 1..(i - 1) : s[j] # ".")
    ELSE 0

\* float(text) of a text of digits and periods, as a fraction; None where
\* float raises ValueError: no digit, or more than one period.
float_text(s) ==
    LET t == strip(s)
        periods == Len(SelectSeq(t, LAMBDA ch : ch = "."))
        digits == SelectSeq(t, LAMBDA ch : ch \in Digits)
    IN  IF /\ digits # <<>>
           /\ periods <= 1
           /\ Len(digits) + periods = Len(t)
        THEN Some(<<digits_value(digits), Power10(DecimalsOf(t))>>)
        ELSE None

\* A process_number_input that takes commas for thousands separators.
process_number_input_thousands(q) ==
    IF float_text(replace(q, ",")) # None
    THEN Val(float_text(replace(q, ",")))
    ELSE <<0, 1>>

\* price_converter.py 34-41
process_number_input(q) ==
    LET processed == replace_char(q, ",", ".")
    IN  IF float_text(processed) # None THEN Val(float_text(processed))
        ELSE <<0, 1>>

\* price_converter.py 14: [\d,\.]+
NUMERIC_PATTERN(s) ==
    /\ Len(s) >= 1
    /\ \A i \in 1..Len(s) : s[i] \in Digits \cup {",", "."}

\* config.py 39: [a-z][a-z0-9_]{2,}[a-z0-9]
USERNAME_PATTERN(s) ==
    /\ Len(s) >= 4
    /\ s[1] \in LowerLetters
    /\ \A i \in 2..(Len(s) - 1) : s[i] \in LowerLetters \cup Digits \cup {"_"}
    /\ Last(s) \in LowerLetters \cup Digits

\* price_converter.py 17-19: re.match of ^[\d,\.]+$ without re.MULTILINE;
\* $ matches at the end of the text and before a newline that ends it.
is_numeric_query(s) ==
    \/ NUMERIC_PATTERN(s)
    \/ s # <<>> /\ Last(s) = "\n" /\ NUMERIC_PATTERN(Front(s))

\* bot.py 61-64: re.match of USERNAME_PATTERN, whose $ does the same.
is_valid_query(s) ==
    \/ USERNAME_PATTERN(s)
    \/ s # <<>> /\ Last(s) = "\n" /\ USERNAME_PATTERN(Front(s))

\* bot.py 102-132: which branch handle_inline_query takes, the text it
\* passes on, and the cache_time of the answer it gives itself (the invalid
\* result; the other branches answer later).
handle_inline_query(q) ==
    IF strip(q) = <<>>
    THEN [class |-> "empty", identifier |-> <<>>, cache_time |-> 0,
          amount |-> None]
    ELSE LET spaceless == replace(q, " ")
             processed_query == replace(lower(spaceless), "@")
         IN  IF is_numeric_query(spaceless)
             THEN [class |-> "numeric", identifier |-> spaceless,
                   cache_time |-> 0,
                   amount |-> Some(process_number_input(spaceless))]
             ELSE IF is_valid_query(processed_query)
                  THEN [class |-> "identifier", identifier |-> processed_query,
                        cache_time |-> 0, amount |-> None]
                  ELSE [class |-> "invalid", identifier |-> <<>>,
                        cache_time |-> INVALID_QUERY_CACHE_TIME,
                        amount |-> None]

\* -------------------------------------- handle_query (services/handler.py)

\* The status texts of a page, character by character.
TextAvailable == <<"A", "v", "a", "i", "l", "a", "b", "l", "e">>
TextOnAuction == <<"O", "n", " ", "a", "u", "c", "t", "i", "o", "n">>
TextForSale == <<"F", "o", "r", " ", "s", "a", "l", "e">>
TextSold == <<"S", "o", "l", "d">>
TextTaken == <<"T", "a", "k", "e", "n">>
TextUnavailable == <<"U", "n", "a", "v", "a", "i", "l", "a", "b", "l", "e">>

\* What the element .tm-section-header-status can hold: the six texts, one
\* of them in another case, one with white space around it, and white
\* space alone.
StatusMarkers ==
    { TextAvailable, TextOnAuction, TextForSale, TextTaken, TextUnavailable,
      <<"O", "N", " ", "A", "U", "C", "T", "I", "O", "N">>,
      <<" ">> \o TextSold \o <<"\n">>,
      <<" ", "\n">> }

\* The amounts of a table cell: .table-cell-value and the $ amount of
\* .table-cell-desc, each None when the element or the amount is missing.
CellAmounts ==
    { [ton |-> Some("10"), usd |-> Some("25")],
      [ton |-> None, usd |-> None] }

\* The display names a wallet link can carry.
NameHandle == <<"b", "o", "b", ".", "t", ".", "m", "e">>
NameAddressLike == <<"E", "Q", "b", ".", "t", ".", "m", "e">>
AddressHead == <<"E", "Q", "A", "b", "c", "d", "e", "f">>
AddressTail == <<"u", "v", "w", "x", "y", "z", "1", "2">>

\* An a.tm-wallet element with its href: span.short (with a name, or with
\* white space only), or span.head and span.tail, or none of them.
WalletLinks ==
    { [short |-> Some(NameHandle), head |-> None, tail |-> None],
      [short |-> Some(<<" ">>), head |-> None, tail |-> None],
      [short |-> Some(NameAddressLike), head |-> None, tail |-> None],
      [short |-> None, head |-> Some(AddressHead), tail |-> Some(AddressTail)],
      [short |-> None, head |-> None, tail |-> None] }

\* The first row of .tm-table-wrap table tbody: its number of cells and the
\* wallet link of its last cell.
BidRows ==
    { [cells |-> 3, wallet |-> Some(w)] : w \in WalletLinks }
        \cup { [cells |-> 3, wallet |-> None],
               [cells |-> 2,
                wallet |-> Some([short |-> Some(NameHandle), head |-> None,
                                 tail |-> None])] }

\* The table with the "Sale Price" header: its price and its wallet link.
SaleTables ==
    { [price |-> Some("5,000"), wallet |-> Some(w)] : w \in WalletLinks }
        \cup { [price |-> None, wallet |-> None] }

\* time.tm-countdown-timer: data-val of .timer-d and the two digits of the
\* hours and of the minutes.
PageCountdowns ==
    { [days |-> <<"1", "0", " ", "d", "a", "y", "s">>,
       hours |-> <<"0", "2">>, mins |-> <<"0", "5">>] }

Optional(S) == {None} \cup { Some(x) : x \in S }

\* The button .js-buy-now-btn: its data-bid-amount, and the text of its
\* .tm-amount element where it has one.
BuyNowButtons ==
    { [bid_amount |-> Some(<<"1", ",", "0", "0", "0">>), displayed |-> None],
      [bid_amount |-> Some(<<"1", "0", "0", "0">>), displayed |-> Some(<<" ">>)] }

\* The documents get_fragment_page can return, by what the extractors look
\* for in them.  highest_bid_text: the text "Highest Bid" stands in the
\* page outside the first header of a table.
Pages ==
    [ status_marker : Optional(StatusMarkers),
      highest_bid_text : BOOLEAN,
      minimum_bid_table : Optional(CellAmounts),
      highest_bid_table : Optional(CellAmounts),
      listed_price : Optional({[ton |-> Some("10"), usd |-> Some("25")]}),
      buy_now : Optional(BuyNowButtons),
      bid_row : Optional(BidRows),
      sale_table : Optional(SaleTables),
      countdown : Optional(PageCountdowns),
      ownership_history : BOOLEAN ]

\* A text that Python takes for true: neither None nor empty.
Truthy(o) == o # None /\ Val(o) # ""

TextHighestBidIn(page) ==
    page.highest_bid_text \/ page.highest_bid_table # None

\* result_articles.py 15-32; quote names the extractor that made the button.
create_price_button(quote, price_info) ==
    [kind |-> "price", quote |-> quote,
     ton |-> price_info.ton, usd |-> price_info.usd]

\* result_articles.py 52-56
create_wallet_button(name, has_bids) ==
    [kind |-> "wallet", name |-> name, has_bids |-> has_bids]

\* result_articles.py 59-67
create_telegram_button(name) ==
    IF contains(name, <<"t", ".", "m", "e">>)
    THEN Some([kind |-> "telegram",
               username |-> replace_text(name, <<".", "t", ".", "m", "e">>)])
    ELSE None

\* A get_username_status that takes a page without the marker for an
\* unavailable one.
get_username_status_defaulting(page) ==
    IF page.status_marker # None THEN Some(strip(Val(page.status_marker)))
    ELSE Some(TextUnavailable)

\* handler.py 57-61
get_username_status(page) ==
    IF page.status_marker # None THEN Some(strip(Val(page.status_marker)))
    ELSE None

\* handler.py 64-92
available_price_info(page) ==
    IF page.listed_price = None THEN None
    ELSE IF Truthy(Val(page.listed_price).ton) \/ Truthy(Val(page.listed_price).usd)
         THEN Some(create_price_button("Listed", Val(page.listed_price)))
         ELSE None

\* handler.py 118-129, 370-383, 443-453: the display name of a wallet link;
\* None where .text of a missing span raises AttributeError.
wallet_name(w, fallback) ==
    IF w.short # None THEN Some(strip(Val(w.short)))
    ELSE IF w.head # None /\ w.tail # None
         THEN Some(SubSeq(Val(w.head), 1, Min(5, Len(Val(w.head))))
                   \o <<".", ".", ".">>
                   \o SubSeq(Val(w.tail), Max(1, Len(Val(w.tail)) - 4),
                             Len(Val(w.tail))))
         ELSE fallback

UnknownBidder == <<"U", "n", "k", "n", "o", "w", "n", " ", "B", "i", "d", "d", "e", "r">>
UnknownOwner == <<"U", "n", "k", "n", "o", "w", "n", " ", "O", "w", "n", "e", "r">>

\* handler.py 95-149
most_recent_wallet_info(page, has_bids) ==
    IF page.bid_row = None THEN None
    ELSE IF Val(page.bid_row).cells < 1 THEN None
    ELSE IF Val(page.bid_row).wallet = None THEN None
    ELSE LET bidder_name == wallet_name(Val(Val(page.bid_row).wallet), None)
         IN  IF bidder_name = None THEN None
             ELSE LET name == Val(bidder_name)
                      wallet_button ==
                          create_wallet_button(
                              IF name # <<>> THEN name ELSE UnknownBidder, has_bids)
                      telegram_button ==
                          IF /\ name # <<>>
                             /\ ~startswith(name, <<"E", "Q">>)
                             /\ ~startswith(name, <<"U", "Q">>)
                          THEN create_telegram_button(name)
                          ELSE None
                  IN  Some(<<wallet_button>> \o telegram_button)

\* An extract_minimum_bid_info that does not look for "Highest Bid" in the
\* text of the page.
extract_minimum_bid_info_unguarded(page) ==
    IF page.minimum_bid_table = None THEN None
    ELSE IF \/ Truthy(Val(page.minimum_bid_table).ton)
            \/ Truthy(Val(page.minimum_bid_table).usd)
         THEN Some(create_price_button("MinimumBid", Val(page.minimum_bid_table)))
         ELSE None

\* handler.py 152-186
extract_minimum_bid_info(page) ==
    IF TextHighestBidIn(page) THEN None
    ELSE IF page.minimum_bid_table = None THEN None
    ELSE IF \/ Truthy(Val(page.minimum_bid_table).ton)
            \/ Truthy(Val(page.minimum_bid_table).usd)
         THEN Some(create_price_button("MinimumBid", Val(page.minimum_bid_table)))
         ELSE None

\* handler.py 189-223
extract_highest_bid_info(page) ==
    IF page.highest_bid_table = None THEN None
    ELSE IF \/ Truthy(Val(page.highest_bid_table).ton)
            \/ Truthy(Val(page.highest_bid_table).usd)
         THEN Some(create_price_button("HighestBid", Val(page.highest_bid_table)))
         ELSE None

\* handler.py 226-258
extract_buy_now_info(page) ==
    IF page.buy_now = None THEN None
    ELSE IF Val(page.buy_now).bid_amount = None THEN None
    ELSE LET amount_numeric ==
                 int_text(replace(Val(Val(page.buy_now).bid_amount), ","))
             displayed == Val(page.buy_now).displayed
         IN  IF amount_numeric = None THEN None
             ELSE Some([kind |-> "buy_now",
                        ton |-> IF displayed # None THEN strip(Val(displayed))
                                ELSE Grouped(Val(amount_numeric))])

\* handler.py 314-344
extract_sold_price_info(page) ==
    IF page.sale_table = None THEN None
    ELSE IF ~Truthy(Val(page.sale_table).price) THEN None
    ELSE Some([kind |-> "sale_price", price |-> Val(Val(page.sale_table).price)])

\* handler.py 347-405
extract_sold_owner_info(page) ==
    IF page.sale_table = None THEN None
    ELSE IF Val(page.sale_table).wallet = None THEN None
    ELSE LET name == Val(wallet_name(Val(Val(page.sale_table).wallet),
                                     Some(UnknownOwner)))
             telegram_button ==
                 IF name # <<>> THEN create_telegram_button(name) ELSE None
         IN  Some(<<create_wallet_button(name, FALSE)>> \o telegram_button)

\* An extract_for_sale_owner_info that takes a row of any number of cells.
extract_for_sale_owner_info_any_row(page) ==
    IF page.bid_row = None THEN None
    ELSE IF Val(page.bid_row).wallet = None THEN None
    ELSE LET owner_name == wallet_name(Val(Val(page.bid_row).wallet), None)
         IN  IF owner_name = None THEN None
             ELSE Some(<<create_wallet_button(Val(owner_name), FALSE)>>)

\* handler.py 408-473
extract_for_sale_owner_info(page) ==
    IF page.bid_row = None THEN None
    ELSE IF Val(page.bid_row).cells < 3 THEN None
    ELSE IF Val(page.bid_row).wallet = None THEN None
    ELSE LET owner_name == wallet_name(Val(Val(page.bid_row).wallet), None)
         IN  IF owner_name = None THEN None
             ELSE LET name == Val(owner_name)
                      telegram_button ==
                          IF name # <<>> THEN create_telegram_button(name)
                          ELSE None
                  IN  Some(<<create_wallet_button(name, FALSE)>> \o telegram_button)

\* handler.py 302-307: the text of the countdown; None where int raises.
format_countdown(days_text, hours_text, mins_text) ==
    LET h == int_text(hours_text)
        m == int_text(mins_text)
        d == int_text(replace_text(
                 replace_text(days_text, <<" ", "d", "a", "y", "s">>),
                 <<" ", "d", "a", "y">>))
    IN  IF contains(days_text, <<"0", " ", "d", "a", "y", "s">>)
        THEN IF h = None \/ m = None THEN None
             ELSE Some(str_int(Val(h)) \o <<"h", " ">>
                       \o str_int(Val(m)) \o <<"m">>)
        ELSE IF d = None \/ h = None \/ m = None THEN None
             ELSE Some(str_int(Val(d)) \o <<"d", " ">>
                       \o str_int(Val(h)) \o <<"h", " ">>
                       \o str_int(Val(m)) \o <<"m">>)

\* handler.py 261-311
extract_ends_in_info(page) ==
    IF page.countdown = None THEN None
    ELSE format_countdown(Val(page.countdown).days, Val(page.countdown).hours,
                          Val(page.countdown).mins)

\* A get_status_message that shows every text outside the four of the
\* dispatch as unavailable.
get_status_message_folding(status) ==
    IF status \in {TextAvailable, TextOnAuction, TextForSale, TextSold}
    THEN [emoji |-> IF status = TextSold THEN "red" ELSE "green",
          label |-> lower(status)]
    ELSE [emoji |-> "cross", label |-> lower(TextUnavailable)]

\* handler.py 476-486: the emoji and the text after "is".
get_status_message(status) ==
    [emoji |-> IF status = TextUnavailable THEN "cross"
               ELSE IF status = TextSold THEN "red"
               ELSE IF status = TextTaken THEN "orange"
               ELSE "green",
     label |-> lower(status)]

\* What a request to fragment.com can end in: an exception of aiohttp, a
\* redirect, another status, or 200 with a body (None: an empty body).
FragmentFailures ==
    { [raised |-> "ClientConnectorError", status |-> 0, body |-> None],
      [raised |-> "TimeoutError", status |-> 0, body |-> None],
      [raised |-> "", status |-> 302, body |-> None],
      [raised |-> "", status |-> 404, body |-> None],
      [raised |-> "", status |-> 500, body |-> None],
      [raised |-> "", status |-> 200, body |-> None] }

FragmentResponses ==
    FragmentFailures
        \cup { [raised |-> "", status |-> 200, body |-> Some(p)] : p \in Pages }

\* handler.py 34-54: what get_fragment_page returns (None, False or the
\* text), or that it raises.
get_fragment_page(response) ==
    IF response.raised # ""
    THEN [exception |-> TRUE, kind |-> "None", text |-> None]
    ELSE IF response.status \in {301, 302, 303, 307, 308}
    THEN [exception |-> FALSE, kind |-> "None", text |-> None]
    ELSE IF response.status = 200
    THEN [exception |-> FALSE, kind |-> "text", text |-> response.body]
    ELSE [exception |-> FALSE, kind |-> "False", text |-> None]

\* What the two requests to tonapi.io can end in.
DnsResponses ==
    { [raised |-> TRUE, status |-> 0, address |-> None],
      [raised |-> FALSE, status |-> 404, address |-> None],
      [raised |-> FALSE, status |-> 200, address |-> None],
      [raised |-> FALSE, status |-> 200, address |-> Some("0:item")] }

FragmentMint == "0:408da3b2"

AuctionResponses ==
    { [raised |-> TRUE, status |-> 0, success |-> FALSE, beneficiar |-> None],
      [raised |-> FALSE, status |-> 500, success |-> FALSE, beneficiar |-> None],
      [raised |-> FALSE, status |-> 200, success |-> FALSE, beneficiar |-> None],
      [raised |-> FALSE, status |-> 200, success |-> TRUE,
       beneficiar |-> Some(FragmentMint)],
      [raised |-> FALSE, status |-> 200, success |-> TRUE,
       beneficiar |-> Some("0:owner")] }

\* result_articles.py 105-146
create_enhanced_auction_source_button(response) ==
    IF ~response.success THEN None
    ELSE IF response.beneficiar = None THEN None
    ELSE IF Val(response.beneficiar) = FragmentMint
         THEN Some([kind |-> "auction_source", text |-> "Fragment Mint"])
         ELSE Some([kind |-> "auction_source", text |-> "User Auction"])

\* handler.py 581: a handle_query that has not been called.  requests is
\* the sequence of HTTP requests it has issued, answer what it passed to
\* inline_query.answer.
IdleHandler ==
    [pc |-> "idle", query |-> <<>>, html_text |-> None,
     keyboard_rows |-> <<>>, minimum_bid_info |-> None,
     requests |-> <<>>, answer |-> None]

\* handler.py 612-615, 704-707: the answer with error_checking_username_article.
ErrorAnswer ==
    [article |-> "error", emoji |-> "", label |-> <<>>, suffix |-> "",
     ends_in |-> None, keyboard |-> <<>>, cache_time |-> ERROR_CACHE_TIME]

\* handler.py 589-605, 684-700: the answer with the article "result".
ResultAnswer(status, suffix, ends_in, keyboard_rows, cache_time) ==
    [article |-> "result",
     emoji |-> get_status_message(status).emoji,
     label |-> get_status_message(status).label,
     suffix |-> suffix, ends_in |-> ends_in,
     keyboard |-> keyboard_rows, cache_time |-> cache_time]

\* keyboard_rows.append([button]) where the button is not None
Row(button) == IF button = None THEN <<>> ELSE <<<<Val(button)>>>>

\* handler.py 670-700: the end of handle_query, from the suffix on.
FinishQuery(h, status, keyboard_rows) ==
    LET page == Val(h.html_text)
        suffix == IF status = TextOnAuction /\ h.minimum_bid_info # None
                  THEN "without bids"
                  ELSE IF status = TextOnAuction THEN "with bids" ELSE ""
        ends_in == IF status \in {TextOnAuction, TextForSale}
                   THEN extract_ends_in_info(page) ELSE None
    IN  [h EXCEPT !.pc = "answered",
                  !.keyboard_rows = keyboard_rows,
                  !.answer = Some(ResultAnswer(status, suffix, ends_in,
                                               keyboard_rows,
                                               USERNAME_RESULT_CACHE_TIME))]

\* handler.py 586-644: handle_query from the return of the request to
\* fragment.com to its answer or to the first request to tonapi.io.
AfterFragmentPage(h, response) ==
    LET fetched == get_fragment_page(response)
    IN  IF fetched.exception
        THEN [h EXCEPT !.pc = "answered", !.answer = Some(ErrorAnswer)]
        ELSE IF fetched.kind # "text" \/ fetched.text = None
        THEN [h EXCEPT !.pc = "answered",
                       !.answer = Some(ResultAnswer(TextUnavailable, "", None, <<>>,
                                           UNAVAILABLE_USERNAME_CACHE_TIME))]
        ELSE
        LET page == Val(fetched.text)
            status == get_username_status(page)
            g == [h EXCEPT !.html_text = Some(page)]
        IN  IF status = None \/ Val(status) = <<>>
            THEN [g EXCEPT !.pc = "answered", !.answer = Some(ErrorAnswer)]
            ELSE IF Val(status) = TextAvailable
            THEN FinishQuery(g, Val(status), Row(available_price_info(page)))
            ELSE IF Val(status) = TextOnAuction
            THEN LET minimum_bid_info == extract_minimum_bid_info(page)
                     rows == Row(minimum_bid_info)
                                 \o Row(extract_highest_bid_info(page))
                                 \o Row(extract_buy_now_info(page))
                                 \o most_recent_wallet_info(
                                        page, minimum_bid_info = None)
                     a == [g EXCEPT !.minimum_bid_info = minimum_bid_info,
                                    !.keyboard_rows = rows]
                 IN  IF page.ownership_history
                     THEN FinishQuery(a, Val(status), rows)
                     ELSE [a EXCEPT !.pc = "dns",
                                    !.requests = Append(@, "tonapi.io/dns")]
            ELSE IF Val(status) = TextSold
            THEN FinishQuery(g, Val(status),
                             Row(extract_sold_price_info(page))
                                 \o extract_sold_owner_info(page))
            ELSE IF Val(status) = TextForSale
            THEN FinishQuery(g, Val(status),
                             extract_for_sale_owner_info(page)
                                 \o Row(extract_buy_now_info(page)))
            ELSE FinishQuery(g, Val(status), <<>>)

\* An AfterDns that asks for the auction configuration whatever the DNS
\* request ended in.
AfterDns_unchecked(h, response) ==
    [h EXCEPT !.pc = "auction_config",
              !.requests = Append(@, "tonapi.io/get_auction_config")]

\* handler.py 514-538: fetch_auction_config_from_tonapi after the DNS
\* request, up to the second request or to the end of handle_query.
AfterDns(h, response) ==
    IF response.raised \/ response.status # 200 \/ response.address = None
    THEN FinishQuery(h, TextOnAuction, h.keyboard_rows)
    ELSE [h EXCEPT !.pc = "auction_config",
                   !.requests = Append(@, "tonapi.io/get_auction_config")]

\* handler.py 539-578, 646-650: after the request for the auction
\* configuration.
AfterAuctionConfig(h, response) ==
    IF response.raised \/ response.status # 200
    THEN FinishQuery(h, TextOnAuction, h.keyboard_rows)
    ELSE FinishQuery(h, TextOnAuction,
                     h.keyboard_rows
                         \o Row(create_enhanced_auction_source_button(response)))

\* ------------------------------------------------------------- Init

Init ==
    /\ rates_cache = [ton_usd |-> None, source1 |-> None, source2 |-> None,
                      age |-> RateAgeCap, w |-> {}]
    /\ floor_price_cache = [price |-> None, number |-> None,
                            item_address |-> None, age |-> FloorAgeCap, w |-> {}]
    /\ rate_loop = [pc |-> "starting", sleep |-> 0, inflight |-> 0]
    /\ floor_loop = [pc |-> "starting", sleep |-> 0, inflight |-> 0]
    /\ tasks = [t \in Tasks |-> IdleTask]
    /\ rate_fetched = <<None, None>>
    /\ floor_fetched = None
    /\ query = <<>>
    /\ outcome = [class |-> "none", identifier |-> <<>>, cache_time |-> 0,
                  amount |-> None]
    /\ handler = IdleHandler

\* ---------------------------------------------------------- actions

\* The lengths of time the model lets pass in one step: a cache duration, or
\* the floor-price duration and a fraction of a second.
Delays == {RateTTL, FloorTTL, FloorTTL + 1}

\* Time passes.  asyncio.sleep returns
\* no earlier than its delay: a sleeper is woken by one step of at least what
\* it has left to sleep, and may be woken late.
Advance(d) ==
    /\ rates_cache' = [rates_cache EXCEPT !.age = Min(@ + d, RateAgeCap)]
    /\ floor_price_cache' = [floor_price_cache EXCEPT !.age = Min(@ + d, FloorAgeCap)]
    /\ rate_loop' = [rate_loop EXCEPT !.sleep = IF d >= @ THEN 0 ELSE @]
    /\ floor_loop' = [floor_loop EXCEPT !.sleep = IF d >= @ THEN 0 ELSE @]
    /\ UNCHANGED <<tasks, rate_fetched, floor_fetched, query, outcome, handler>>

\* rates.py 125-127: the loop calls update_rates, which awaits the gather.
RateLoopStart ==
    /\ LoopMayStart(rate_loop)
    /\ rate_loop' = LoopStartRefresh(rate_loop)
    /\ UNCHANGED <<rates_cache, floor_price_cache, floor_loop, tasks,
                   rate_fetched, floor_fetched, query, outcome, handler>>

\* rates.py 57-87 and 128-132: the gather returns a, b; the cache is written
\* and the loop goes to sleep.
RateLoopDone(a, b) ==
    /\ rate_loop.inflight > 0
    /\ rates_cache' = update_rates(rates_cache, a, b)
    /\ rate_fetched' = <<a, b>>
    /\ rate_loop' = LoopAfterRefresh(rate_loop, RateTTL)
    /\ tasks' = [t \in Tasks |-> MarkRateWritten(tasks[t])]
    /\ UNCHANGED <<floor_price_cache, floor_loop, floor_fetched,
                   query, outcome, handler>>

\* getgems.py 292-294
FloorLoopStart ==
    /\ LoopMayStart(floor_loop)
    /\ floor_loop' = LoopStartRefresh(floor_loop)
    /\ UNCHANGED <<rates_cache, floor_price_cache, rate_loop, tasks,
                   rate_fetched, floor_fetched, query, outcome, handler>>

\* getgems.py 159-175 and 295-299
FloorLoopDone(r) ==
    /\ floor_loop.inflight > 0
    /\ floor_price_cache' = update_floor_price(floor_price_cache, fetch_floor_price(r))
    /\ floor_fetched' = fetch_floor_price(r)
    /\ floor_loop' = LoopAfterRefresh(floor_loop, FloorTTL)
    /\ UNCHANGED <<rates_cache, rate_loop, tasks, rate_fetched,
                   query, outcome, handler>>

\* bot.py 117-120 with price_converter.py 44-49 and rates.py 90-99: a numeric
\* query runs up to the await of update_rates, or to its answer.
NumericQuery(t, amount) ==
    /\ tasks[t].pc = "idle"
    /\ LET tk == [tasks[t] EXCEPT !.kind = "numeric", !.amount = amount]
       IN  tasks' = [tasks EXCEPT ![t] =
                IF RateNeedsRefresh(rates_cache)
                THEN [tk EXCEPT !.pc = "rate_wait", !.rate_inflight = 1]
                ELSE NumericFinish(tk, rates_cache)]
    /\ UNCHANGED <<rates_cache, floor_price_cache, rate_loop, floor_loop,
                   rate_fetched, floor_fetched, query, outcome, handler>>

\* bot.py 108-110 with result_articles.py 325-327 and rates.py 90-99: an
\* empty query runs up to its first await that suspends.
EmptyQuery(t) ==
    /\ tasks[t].pc = "idle"
    /\ LET tk == [tasks[t] EXCEPT !.kind = "empty"]
       IN  tasks' = [tasks EXCEPT ![t] =
                IF RateNeedsRefresh(rates_cache)
                THEN [tk EXCEPT !.pc = "rate_wait", !.rate_inflight = 1]
                ELSE EmptyAfterRate(tk, rates_cache, floor_price_cache)]
    /\ UNCHANGED <<rates_cache, floor_price_cache, rate_loop, floor_loop,
                   rate_fetched, floor_fetched, query, outcome, handler>>

\* rates.py 57-87 and 101-106: the update_rates a task awaits in
\* get_ton_price returns, and the task runs on to its next await.
TaskRateDone(t, a, b) ==
    /\ tasks[t].pc = "rate_wait"
    /\ rates_cache' = update_rates(rates_cache, a, b)
    /\ rate_fetched' = <<a, b>>
    /\ tasks' = [u \in Tasks |->
            IF u # t THEN MarkRateWritten(tasks[u])
            ELSE IF tasks[t].kind = "numeric"
                 THEN NumericFinish(tasks[t], rates_cache')
                 ELSE EmptyAfterRate(tasks[t], rates_cache', floor_price_cache)]
    /\ UNCHANGED <<floor_price_cache, rate_loop, floor_loop,
                   floor_fetched, query, outcome, handler>>

\* getgems.py 159-175, 188-191 and 244-287: the update_floor_price a task
\* awaits in get_floor_price returns.
TaskFloorDone(t, r) ==
    /\ tasks[t].pc = "floor_wait"
    /\ floor_price_cache' = update_floor_price(floor_price_cache, fetch_floor_price(r))
    /\ floor_fetched' = fetch_floor_price(r)
    /\ tasks' = [tasks EXCEPT ![t] =
            [EmptyFinish(tasks[t], rates_cache, floor_price_cache') EXCEPT
                 !.cache_age = Some(0)]]
    /\ UNCHANGED <<rates_cache, rate_loop, floor_loop, rate_fetched,
                   query, outcome, handler>>

\* bot.py 111-114, 120-122: inline_query.answer returns (or the exception
\* has left the handler) and the task is over.
QueryEnd(t) ==
    /\ tasks[t].pc \in {"answering", "failed"}
    /\ tasks' = [tasks EXCEPT ![t] = IdleTask]
    /\ UNCHANGED <<rates_cache, floor_price_cache, rate_loop, floor_loop,
                   rate_fetched, floor_fetched, query, outcome, handler>>

Next ==
    \/ \E d \in Delays : Advance(d)
    \/ RateLoopStart
    \/ \E a \in CoingeckoResults, b \in BinanceResults : RateLoopDone(a, b)
    \/ FloorLoopStart
    \/ \E r \in FloorResponses : FloorLoopDone(r)
    \/ \E t \in Tasks, amount \in Amounts : NumericQuery(t, amount)
    \/ \E t \in Tasks : EmptyQuery(t)
    \/ \E t \in Tasks, a \in CoingeckoResults, b \in BinanceResults : TaskRateDone(t, a, b)
    \/ \E t \in Tasks, r \in FloorResponses : TaskFloorDone(t, r)
    \/ \E t \in Tasks : QueryEnd(t)

Spec == Init /\ [][Next]_vars

\* The rate cache alone, over the wider set of prices.
RateNext ==
    \/ Advance(RateTTL)
    \/ RateLoopStart
    \/ \E a \in CoingeckoPrices, b \in BinancePrices : RateLoopDone(a, b)
    \/ \E t \in Tasks, amount \in Amounts : NumericQuery(t, amount)
    \/ \E t \in Tasks, a \in CoingeckoPrices, b \in BinancePrices : TaskRateDone(t, a, b)
    \/ \E t \in Tasks : QueryEnd(t)

RateSpec == Init /\ [][RateNext]_vars

\* Time keeps passing, a sleep that is over returns, and an HTTP request ends
\* (aiohttp's default ClientTimeout is total = 300 s), so each step of a
\* loop that can be taken is taken.
FairSpec ==
    /\ Init /\ [][Next]_vars
    /\ WF_vars(Advance(FloorTTL))
    /\ WF_vars(RateLoopStart)
    /\ WF_vars(FloorLoopStart)
    /\ WF_vars(\E a \in CoingeckoResults, b \in BinanceResults : RateLoopDone(a, b))
    /\ WF_vars(\E r \in FloorResponses : FloorLoopDone(r))

\* The classifier alone, on every query of up to MaxLen characters.
ClassifyInit ==
    /\ Init!1 /\ Init!2 /\ Init!3 /\ Init!4 /\ Init!5 /\ Init!6 /\ Init!7
    /\ Init!10
    /\ query \in Strings
    /\ outcome = [class |-> "none", identifier |-> <<>>, cache_time |-> 0,
                  amount |-> None]

\* bot.py 102-132: the handler classifies the query it was given.
Classify ==
    /\ outcome.class = "none"
    /\ outcome' = handle_inline_query(query)
    /\ UNCHANGED <<rates_cache, floor_price_cache, rate_loop, floor_loop,
                   tasks, rate_fetched, floor_fetched, query, handler>>

ClassifySpec == ClassifyInit /\ [][Classify]_vars

\* The classifier on the queries made of digits, commas, periods, spaces
\* and a letter.
NumericAlphabet == {"1", "2", ",", ".", " ", "a"}

NumericStrings == UNION { [1..n -> NumericAlphabet] : n \in 0..MaxLen }

NumericInit ==
    /\ Init!1 /\ Init!2 /\ Init!3 /\ Init!4 /\ Init!5 /\ Init!6 /\ Init!7
    /\ Init!10
    /\ query \in NumericStrings
    /\ outcome = [class |-> "none", identifier |-> <<>>, cache_time |-> 0,
                  amount |-> None]

NumericSpec == NumericInit /\ [][Classify]_vars

\* --------------------------------------------------- the identifier path

\* The query the identifier path is run on.
HandlerQueries == { <<"@", "a", "Z", "1", "_", "a">> }

\* bot.py 102-127, handler.py 581-586: a query that is an identifier reaches
\* handle_query, which sleeps and then requests the page of fragment.com.
HandleQuery(q) ==
    /\ handler.pc = "idle"
    /\ handle_inline_query(q).class = "identifier"
    /\ query' = q
    /\ outcome' = handle_inline_query(q)
    /\ handler' = [IdleHandler EXCEPT !.pc = "fetching",
                                      !.query = handle_inline_query(q).identifier,
                                      !.requests = <<"fragment.com">>]
    /\ UNCHANGED <<rates_cache, floor_price_cache, rate_loop, floor_loop,
                   tasks, rate_fetched, floor_fetched>>

\* A PageFetched whose handle_query asks tonapi.io about every page it
\* could read a status from.
PageFetched_always_resolving(response) ==
    /\ handler.pc = "fetching"
    /\ handler' =
           LET h == AfterFragmentPage(handler, response)
           IN  IF h.pc = "answered" /\ Val(h.answer).article = "result"
                                   /\ h.html_text # None
               THEN [h EXCEPT !.pc = "dns", !.answer = None,
                              !.requests = Append(@, "tonapi.io/dns")]
               ELSE h
    /\ UNCHANGED <<rates_cache, floor_price_cache, rate_loop, floor_loop,
                   tasks, rate_fetched, floor_fetched, query, outcome>>

\* handler.py 586-700: the request to fragment.com ends.
PageFetched(response) ==
    /\ handler.pc = "fetching"
    /\ handler' = AfterFragmentPage(handler, response)
    /\ UNCHANGED <<rates_cache, floor_price_cache, rate_loop, floor_loop,
                   tasks, rate_fetched, floor_fetched, query, outcome>>

\* A TonapiDnsDone that also stamps the rate cache.
TonapiDnsDone_touching(response) ==
    /\ handler.pc = "dns"
    /\ handler' = AfterDns(handler, response)
    /\ rates_cache' = [rates_cache EXCEPT !.age = 0]
    /\ UNCHANGED <<floor_price_cache, rate_loop, floor_loop,
                   tasks, rate_fetched, floor_fetched, query, outcome>>

\* handler.py 514-538: the DNS request to tonapi.io ends.
TonapiDnsDone(response) ==
    /\ handler.pc = "dns"
    /\ handler' = AfterDns(handler, response)
    /\ UNCHANGED <<rates_cache, floor_price_cache, rate_loop, floor_loop,
                   tasks, rate_fetched, floor_fetched, query, outcome>>

\* handler.py 539-578, 646-700: the request for the auction configuration
\* ends.
TonapiAuctionDone(response) ==
    /\ handler.pc = "auction_config"
    /\ handler' = AfterAuctionConfig(handler, response)
    /\ UNCHANGED <<rates_cache, floor_price_cache, rate_loop, floor_loop,
                   tasks, rate_fetched, floor_fetched, query, outcome>>

\* inline_query.answer has returned and handle_query with it.
HandlerEnd ==
    /\ handler.pc = "answered"
    /\ handler' = IdleHandler
    /\ UNCHANGED <<rates_cache, floor_price_cache, rate_loop, floor_loop,
                   tasks, rate_fetched, floor_fetched, query, outcome>>

HandlerNext ==
    \/ \E q \in HandlerQueries : HandleQuery(q)
    \/ handler.pc = "fetching" /\ \E r \in FragmentResponses : PageFetched(r)
    \/ \E r \in DnsResponses : TonapiDnsDone(r)
    \/ \E r \in AuctionResponses : TonapiAuctionDone(r)
    \/ HandlerEnd

HandlerSpec == Init /\ [][HandlerNext]_vars

\* bot.py 124-132: a query that is neither empty, numeric nor an identifier
\* is answered with invalid_username_article.
InvalidQueries == { <<"a", "_">>, <<"1", "a", "a", "a", "a">> }

InvalidQuery(q) ==
    /\ handler.pc = "idle"
    /\ handle_inline_query(q).class = "invalid"
    /\ query' = q
    /\ outcome' = handle_inline_query(q)
    /\ UNCHANGED <<rates_cache, floor_price_cache, rate_loop, floor_loop,
                   tasks, rate_fetched, floor_fetched, handler>>

\* The caches with their writers next to the identifier path and the
\* invalid path, on a few pages: one that is not there, one on auction and
\* one sold.
FramePages ==
    { p \in Pages :
        /\ p.status_marker \in {Some(TextOnAuction), Some(TextSold)}
        /\ ~p.highest_bid_text /\ ~p.ownership_history
        /\ p.minimum_bid_table = None /\ p.highest_bid_table = None
        /\ p.listed_price = None /\ p.buy_now = None /\ p.bid_row = None
        /\ p.sale_table = None /\ p.countdown = None }

FrameResponses ==
    { [raised |-> "", status |-> 302, body |-> None] }
        \cup { [raised |-> "", status |-> 200, body |-> Some(p)] : p \in FramePages }

\* One query task runs next to the handler.
FrameTasks == {1}

FrameNext ==
    \/ \E d \in Delays : Advance(d)
    \/ RateLoopStart
    \/ \E a \in CoingeckoResults, b \in BinanceResults : RateLoopDone(a, b)
    \/ FloorLoopStart
    \/ \E r \in FloorResponses : FloorLoopDone(r)
    \/ \E t \in FrameTasks : EmptyQuery(t)
    \/ \E t \in FrameTasks, a \in CoingeckoResults, b \in BinanceResults : TaskRateDone(t, a, b)
    \/ \E t \in FrameTasks, r \in FloorResponses : TaskFloorDone(t, r)
    \/ \E t \in FrameTasks : QueryEnd(t)
    \/ \E q \in HandlerQueries : HandleQuery(q)
    \/ \E q \in InvalidQueries : InvalidQuery(q)
    \/ \E r \in FrameResponses : PageFetched(r)
    \/ \E r \in DnsResponses : TonapiDnsDone(r)
    \/ \E r \in AuctionResponses : TonapiAuctionDone(r)
    \/ HandlerEnd

FrameSpec == Init /\ [][FrameNext]_vars

\* The countdown alone, over the wider set of timers: pages on auction or
\* for sale that differ in their countdown only.
DaysText(d) ==
    str_int(d) \o (IF d = 1 THEN <<" ", "d", "a", "y">>
                             ELSE <<" ", "d", "a", "y", "s">>)

TwoDigits(n) == <<DigitChars[(n \div 10) + 1], DigitChars[(n % 10) + 1]>>

CountdownHours == {0, 2, 23}
CountdownMinutes == {0, 5, 59}

CountdownPages ==
    { [status_marker |-> Some(st), highest_bid_text |-> FALSE,
       minimum_bid_table |-> None, highest_bid_table |-> None,
       listed_price |-> None, buy_now |-> None, bid_row |-> None,
       sale_table |-> None,
       countdown |-> Some([days |-> DaysText(d), hours |-> TwoDigits(h),
                           mins |-> TwoDigits(m)]),
       ownership_history |-> TRUE] :
      st \in {TextOnAuction, TextForSale}, d \in 0..MaxDays,
      h \in CountdownHours, m \in CountdownMinutes }

CountdownNext ==
    \/ \E q \in HandlerQueries : HandleQuery(q)
    \/ \E p \in CountdownPages :
           PageFetched([raised |-> "", status |-> 200, body |-> Some(p)])
    \/ HandlerEnd

CountdownSpec == Init /\ [][CountdownNext]_vars

\* ----------------------------------------------------- refreshes in flight

RECURSIVE SumOver(_, _, _)
SumOver(ts, key, n) ==
    IF n = 0 THEN 0 ELSE ts[n][key] + SumOver(ts, key, n - 1)

RateInFlight(loop, ts) == loop.inflight + SumOver(ts, "rate_inflight", NumTasks)
FloorInFlight(loop, ts) == loop.inflight + SumOver(ts, "floor_inflight", NumTasks)

RateRefreshEnds == RateInFlight(rate_loop, tasks)' < RateInFlight(rate_loop, tasks)
FloorRefreshEnds == FloorInFlight(floor_loop, tasks)' < FloorInFlight(floor_loop, tasks)

\* Task t returns from get_ton_price / get_floor_price in this step.
ReturnsFromGetTonPrice(t) ==
    /\ tasks[t].pc \in {"idle", "rate_wait"}
    /\ tasks'[t].pc \in {"floor_wait", "answering", "failed"}

ReturnsFromGetFloorPrice(t) ==
    /\ tasks[t].pc \in {"idle", "rate_wait", "floor_wait"}
    /\ tasks'[t].pc \in {"answering", "failed"}
    /\ tasks'[t].kind = "empty"

\* Task t calls get_ton_price / get_floor_price in this step.
CallsGetTonPrice(t) == tasks[t].pc = "idle" /\ tasks'[t].pc # "idle"

CallsGetFloorPrice(t) ==
    /\ tasks[t].pc \in {"idle", "rate_wait"}
    /\ tasks'[t].pc \in {"floor_wait", "answering", "failed"}
    /\ tasks'[t].kind = "empty"

\* ------------------------------------------------------------ claims

\* C1: in both caches a value that is set is never None again, and a
\* get_ton_price() / get_floor_price() that returns after the value was set
\* does not return None.
C1_NeverUnsetAgain ==
    [][ /\ rates_cache.ton_usd # None => rates_cache'.ton_usd # None
        /\ floor_price_cache.price # None => floor_price_cache'.price # None
        /\ \A t \in Tasks :
            /\ (rates_cache.ton_usd # None /\ ReturnsFromGetTonPrice(t)) =>
                  /\ tasks'[t].kind = "numeric" => tasks'[t].ton_price # None
                  /\ tasks'[t].kind = "empty" => tasks'[t].held = "ton_rate"
            /\ (floor_price_cache.price # None /\ ReturnsFromGetFloorPrice(t)) =>
                  ~(/\ tasks'[t].pc = "answering"
                    /\ tasks'[t].result[3] = "number_floor_price_unavailable")
      ]_vars

\* Both caches hold a value although the last refresh of each failed, and a
\* query was answered from them.
C1_Witness ==
    /\ rates_cache.ton_usd # None /\ rate_fetched = <<None, None>>
    /\ floor_price_cache.price # None /\ floor_fetched = None
    /\ \E t \in Tasks :
        /\ tasks[t].pc = "answering"
        /\ tasks[t].result = <<"empty_query", "ton_rate", "number_floor_price">>

C3_RefreshIffExpired ==
    [][ \A t \in Tasks :
          /\ CallsGetTonPrice(t) =>
                (tasks'[t].rate_inflight = 1 <=>
                    (rates_cache.ton_usd = None \/ rates_cache.age > RateTTL))
          /\ CallsGetFloorPrice(t) =>
                (tasks'[t].floor_inflight = 1 <=>
                    (floor_price_cache.price = None \/ floor_price_cache.age > FloorTTL))
      ]_vars

\* r is n/d rounded to 4 decimals: a multiple of 10^-4, and no other
\* multiple is nearer.
IsRounded4(r, n, d) ==
    /\ r % 10 = 0
    /\ 2 * (r * d - n) <= 10 * d
    /\ 2 * (n - r * d) <= 10 * d

\* C4: after a rate refresh whose sources returned a and b the composite is
\* the mean rounded to 4 decimals when both are prices, the one price
\* rounded when one is, and what it was before when none is; 5.0 and 7.0
\* give 6.0, 5.0 alone gives 5.0.
C4_CompositeOfSources ==
    [][ RateRefreshEnds =>
          LET a == rate_fetched'[1]
              b == rate_fetched'[2]
              now == rates_cache'.ton_usd
          IN  /\ (a # None /\ b # None) =>
                    now # None /\ IsRounded4(Val(now), Val(a) + Val(b), 2)
              /\ (a # None /\ b = None) =>
                    now # None /\ IsRounded4(Val(now), Val(a), 1)
              /\ (a = None /\ b # None) =>
                    now # None /\ IsRounded4(Val(now), Val(b), 1)
              /\ (a = None /\ b = None) => now = rates_cache.ton_usd
              /\ (a = Some(500000) /\ b = Some(700000)) => now = Some(600000)
              /\ (a = Some(500000) /\ b = None) => now = Some(500000)
      ]_vars

\* A refresh has stored a mean that rounding changed (1.23456 and 7.0 give
\* 4.11728, stored as 4.1173).
C4_Witness ==
    /\ rate_fetched = <<Some(123456), Some(700000)>>
    /\ rates_cache.ton_usd = Some(411730)

\* C5 as claimed: a refresh round in which a source fails leaves the value
\* stored for that source unchanged.
C5_FailedSourceKept ==
    [][ RateRefreshEnds =>
          /\ rate_fetched'[1] = None => rates_cache'.source1 = rates_cache.source1
          /\ rate_fetched'[2] = None => rates_cache'.source2 = rates_cache.source2
      ]_vars

\* C5 as amended: source1 and source2 hold what each source returned in the
\* most recent refresh round, None for a source that failed in it, whatever
\* was stored for it before.
C5_SourcesOfLastRound ==
    /\ rates_cache.source1 = rate_fetched[1]
    /\ rates_cache.source2 = rate_fetched[2]

\* Both sources failed in the last round, after a round in which one
\* succeeded: the composite is kept and no source value is.
C5_Witness ==
    /\ rate_fetched = <<None, None>>
    /\ rates_cache.ton_usd # None
    /\ rates_cache.source1 = None /\ rates_cache.source2 = None

\* C6: a floor-price refresh for which fetch_floor_price returned None
\* leaves price, number, item_address and last_update as they were; one for
\* which it returned data replaces price, number and item_address by that
\* data; nothing else changes the three; and every failed response makes
\* fetch_floor_price return None.
C6_FloorWrittenOnSuccessOnly ==
    [][ /\ FloorRefreshEnds =>
              IF floor_fetched' = None
              THEN floor_price_cache' = floor_price_cache
              ELSE /\ floor_price_cache'.price = Some(Val(floor_fetched').price)
                   /\ floor_price_cache'.number = Some(Val(floor_fetched').number)
                   /\ floor_price_cache'.item_address = Val(floor_fetched').item_address
                   /\ floor_price_cache'.age = 0
        /\ ( \/ floor_price_cache'.price # floor_price_cache.price
             \/ floor_price_cache'.number # floor_price_cache.number
             \/ floor_price_cache'.item_address # floor_price_cache.item_address )
              => FloorRefreshEnds /\ floor_fetched' # None
        /\ \A r \in FailedResponses : fetch_floor_price(r) = None
      ]_vars

\* A refresh failed after one had succeeded, and the cache has aged with
\* the earlier data in it.
C6_Witness ==
    /\ floor_fetched = None
    /\ floor_price_cache.price # None
    /\ floor_price_cache.age = FloorAgeCap

\* C7 as claimed: all the fields of one cache that a query task uses were
\* written by the same refresh.
C7_NoTornOrMixedRead ==
    \A t \in Tasks : ~tasks[t].torn /\ ~tasks[t].mixed

\* C7 as amended: the fields of one cache that a query task reads between
\* two suspension points were written by the same refresh, and so are the
\* fields any reader could read at any time; a task that reads the same
\* cache before and after an await (the empty query: the rate article, then
\* the conversion of the floor price) may use values of two refreshes.
C7_NoTornRead ==
    /\ \A t \in Tasks : ~tasks[t].torn
    /\ ~Torn(RateFieldsUsed(rates_cache), rates_cache.w)
    /\ ~Torn(FloorFieldsUsed(floor_price_cache), floor_price_cache.w)

\* An empty query was answered from both caches after a failed rate round
\* that kept the composite.
C7_Witness ==
    /\ rate_fetched = <<None, None>>
    /\ \E t \in Tasks :
        /\ tasks[t].pc = "answering"
        /\ tasks[t].result = <<"empty_query", "ton_rate", "number_floor_price">>

\* C8: each loop starts a refresh again and again, only from the top of the
\* loop when its sleep of one TTL has returned, and never has two of its
\* own refreshes in flight.
C8_LoopsRunForever ==
    /\ []<>(rate_loop.pc = "refreshing")
    /\ []<>(floor_loop.pc = "refreshing")
    /\ [](rate_loop.inflight <= 1 /\ floor_loop.inflight <= 1)
    /\ [][ /\ rate_loop'.inflight > rate_loop.inflight =>
                rate_loop.pc # "refreshing" /\ rate_loop.sleep = 0
           /\ floor_loop'.inflight > floor_loop.inflight =>
                floor_loop.pc # "refreshing" /\ floor_loop.sleep = 0
           /\ rate_loop'.sleep > rate_loop.sleep => rate_loop'.sleep = RateTTL
           /\ floor_loop'.sleep > floor_loop.sleep => floor_loop'.sleep = FloorTTL
         ]_vars

\* Both loops have been through a refresh, the last refresh of each cache
\* failed, both sleeps have returned and the next refreshes can start.
C8_Witness ==
    /\ rate_loop.pc = "sleeping" /\ rate_loop.sleep = 0
    /\ floor_loop.pc = "sleeping" /\ floor_loop.sleep = 0
    /\ rate_fetched = <<None, None>> /\ floor_fetched = None

\* C9 as claimed: a query that is neither empty nor numeric takes the
\* identifier path if and only if n matches the pattern, n being the query
\* with spaces removed, one leading '@' removed and lower-cased; a query
\* with '@' in another position gets the invalid result.
C9_LeadingAtOnly ==
    outcome.class \in {"identifier", "invalid"} =>
        LET spaceless == replace(query, " ")
            n == lower(IF spaceless # <<>> /\ Head(spaceless) = "@"
                       THEN Tail(spaceless) ELSE spaceless)
        IN  /\ outcome.class = "identifier" <=> is_valid_query(n)
            /\ (\E i \in 2..Len(spaceless) : spaceless[i] = "@") =>
                  outcome.class = "invalid"

\* C10 as claimed: an identifier the classifier accepts has at least 5
\* characters, starts with a lower-case letter, ends with a lower-case
\* letter or digit and is made of lower-case letters, digits and
\* underscores.
C10_AcceptedIdentifierShape ==
    outcome.class = "identifier" =>
        /\ Len(outcome.identifier) >= 5
        /\ outcome.identifier[1] \in LowerLetters
        /\ Last(outcome.identifier) \in LowerLetters \cup Digits
        /\ \A i \in 1..Len(outcome.identifier) :
              outcome.identifier[i] \in LowerLetters \cup Digits \cup {"_"}

\* C12 as claimed: every empty query, whatever the two caches hold and
\* whatever the upstreams return, is answered with exactly three results in
\* the order empty-prompt, currency-rate, floor-price.
C12_EmptyQueryThreeResults ==
    \A t \in Tasks :
        (tasks[t].kind = "empty" /\ tasks[t].pc \in {"answering", "failed"}) =>
            /\ tasks[t].pc = "answering"
            /\ Len(tasks[t].result) = 3
            /\ tasks[t].result[1] = "empty_query"
            /\ tasks[t].result[2] \in {"ton_rate", "ton_rate_unavailable"}
            /\ tasks[t].result[3] \in
                  {"number_floor_price", "number_floor_price_unavailable"}

\* C13 as claimed: every query ends with one answer from the fixed set of
\* results, and no exception leaves the task that handles it.
C13_NoExceptionEscapes ==
    /\ \A t \in Tasks :
        /\ tasks[t].pc # "failed"
        /\ tasks[t].pc = "answering" =>
              \/ tasks[t].result \in {<<"price_error">>, <<"price_conversion">>}
              \/ Len(tasks[t].result) = 3 /\ tasks[t].result[1] = "empty_query"
    /\ handler.pc = "answered" =>
          /\ handler.answer # None
          /\ Val(handler.answer).article \in {"result", "error"}
    /\ outcome.class \in {"none", "empty", "numeric", "identifier", "invalid"}


\* C11: the cache time of each answer is that of its kind: 5 s for the empty
\* query, 300 s for an invalid identifier, 30 s for a price conversion,
\* 300 s for an identifier that is unavailable or resolved, and 5 s for
\* every transient error, the missing price of a numeric query included.
C11_CacheTimeByResultKind ==
    /\ \A t \in Tasks :
           tasks[t].pc = "answering" =>
               /\ tasks[t].kind = "empty" =>
                      tasks[t].cache_time = EMPTY_QUERY_CACHE_TIME
               /\ tasks[t].result = <<"price_conversion">> =>
                      tasks[t].cache_time = NUMERIC_QUERY_CACHE_TIME
               /\ tasks[t].result = <<"price_error">> =>
                      tasks[t].cache_time = ERROR_CACHE_TIME
    /\ outcome.class = "invalid" => outcome.cache_time = INVALID_QUERY_CACHE_TIME
    /\ handler.pc = "answered" =>
           /\ Val(handler.answer).article = "error" =>
                  Val(handler.answer).cache_time = ERROR_CACHE_TIME
           /\ Val(handler.answer).article = "result" =>
                  Val(handler.answer).cache_time = USERNAME_RESULT_CACHE_TIME


\* C14: a page without the status marker is answered with the article
\* "error", which the article "result" of an unavailable identifier is
\* not, and nothing is extracted from it: no button, no suffix, no
\* countdown, and no request other than the one for the page.
C14_NoMarkerNoExtraction ==
    (handler.html_text # None /\ Val(handler.html_text).status_marker = None) =>
        /\ handler.pc = "answered"
        /\ Val(handler.answer).article = "error"
        /\ Val(handler.answer).cache_time = ERROR_CACHE_TIME
        /\ Val(handler.answer).keyboard = <<>>
        /\ Val(handler.answer).suffix = ""
        /\ Val(handler.answer).ends_in = None
        /\ handler.keyboard_rows = <<>>
        /\ handler.requests = <<"fragment.com">>

C14_Witness ==
    /\ handler.pc = "answered"
    /\ handler.html_text # None
    /\ Val(handler.html_text).status_marker = None
    /\ Val(handler.html_text).minimum_bid_table # None
    /\ Val(handler.html_text).bid_row # None
    /\ Val(handler.html_text).countdown # None
    /\ ~Val(handler.html_text).ownership_history
    /\ Val(handler.answer).article = "error"


\* ------------------------------------------ what an answer was made from

\* The page handle_query has parsed and the status it read from it.
Answered == handler.pc = "answered" /\ handler.html_text # None
ParsedPage == Val(handler.html_text)
ParsedStatus == Val(get_username_status(ParsedPage))

\* The quotes of the price buttons of a keyboard.
Quotes(rows) ==
    { rows[i][1].quote :
        i \in { k \in 1..Len(rows) : rows[k][1].kind = "price" } }

\* C15: a fetch of the page that does not end in a body (a redirect, a
\* status other than 200, a connection failure or a timeout) is answered
\* with the Unavailable result, never with the article "error".
C15_FetchFailureIsUnavailable ==
    (handler.pc = "answered" /\ handler.html_text = None) =>
        /\ Val(handler.answer).article = "result"
        /\ Val(handler.answer).emoji = "cross"
        /\ Val(handler.answer).label = lower(TextUnavailable)

\* C16 as stated: the status text selects its extraction path ignoring
\* case, and every other text that is not empty is shown as unavailable.
C16_CaseInsensitiveDispatch ==
    (Answered /\ ParsedPage.status_marker # None /\ ParsedStatus # <<>>) =>
        LET a == Val(handler.answer)
            st == lower(ParsedStatus)
        IN  /\ st = lower(TextAvailable) =>
                   a.keyboard = Row(available_price_info(ParsedPage))
            /\ st = lower(TextOnAuction) =>
                   a.suffix \in {"with bids", "without bids"}
            /\ st = lower(TextSold) =>
                   a.keyboard = Row(extract_sold_price_info(ParsedPage))
                                    \o extract_sold_owner_info(ParsedPage)
            /\ st = lower(TextForSale) =>
                   a.keyboard = extract_for_sale_owner_info(ParsedPage)
                                    \o Row(extract_buy_now_info(ParsedPage))
            /\ st \notin {lower(TextAvailable), lower(TextOnAuction),
                           lower(TextSold), lower(TextForSale)} =>
                   /\ a.emoji = "cross"
                   /\ a.label = lower(TextUnavailable)
                   /\ a.keyboard = <<>>

\* C16 as amended: the stripped status text selects its extraction path
\* when it equals one of the four texts exactly, case included; every other
\* text that is not empty selects none and is shown under its own
\* lower-cased text, with the cache time of a resolved identifier.
C16_ExactDispatch ==
    (Answered /\ ParsedPage.status_marker # None /\ ParsedStatus # <<>>) =>
        LET a == Val(handler.answer)
        IN  /\ a.article = "result"
            /\ a.label = lower(ParsedStatus)
            /\ a.cache_time = USERNAME_RESULT_CACHE_TIME
            /\ ParsedStatus = TextAvailable =>
                   a.keyboard = Row(available_price_info(ParsedPage))
            /\ ParsedStatus = TextOnAuction =>
                   a.suffix \in {"with bids", "without bids"}
            /\ ParsedStatus = TextSold =>
                   a.keyboard = Row(extract_sold_price_info(ParsedPage))
                                    \o extract_sold_owner_info(ParsedPage)
            /\ ParsedStatus = TextForSale =>
                   a.keyboard = extract_for_sale_owner_info(ParsedPage)
                                    \o Row(extract_buy_now_info(ParsedPage))
            /\ ParsedStatus \notin {TextAvailable, TextOnAuction,
                                     TextSold, TextForSale} =>
                   /\ a.keyboard = <<>>
                   /\ a.suffix = ""
                   /\ a.ends_in = None
                   /\ handler.requests = <<"fragment.com">>
                   /\ a.emoji = "cross" <=> ParsedStatus = TextUnavailable

C16_Witness ==
    /\ Answered
    /\ ParsedPage.status_marker # None
    /\ ParsedStatus # TextOnAuction
    /\ lower(ParsedStatus) = lower(TextOnAuction)
    /\ extract_minimum_bid_info(ParsedPage) # None
    /\ ParsedPage.countdown # None
    /\ Val(handler.answer).keyboard = <<>>
    /\ Val(handler.answer).label = lower(TextOnAuction)

\* C17: what is made of a page on auction never holds both a MinimumBid
\* and a HighestBid quote; a MinimumBid quote is made only of a page whose
\* text lacks "Highest Bid", a HighestBid quote only of one whose text
\* holds it.
C17_MinimumOrHighestBid ==
    handler.html_text # None =>
        LET quotes == Quotes(handler.keyboard_rows)
        IN  /\ ~({"MinimumBid", "HighestBid"} \subseteq quotes)
            /\ "MinimumBid" \in quotes => ~TextHighestBidIn(ParsedPage)
            /\ "HighestBid" \in quotes => TextHighestBidIn(ParsedPage)

C17_Witness ==
    /\ Answered
    /\ ParsedPage.status_marker # None
    /\ ParsedStatus = TextOnAuction
    /\ ParsedPage.minimum_bid_table # None
    /\ ParsedPage.highest_bid_table # None
    /\ Quotes(Val(handler.answer).keyboard) = {"HighestBid"}

\* C18: the suffix of a page on auction is "without bids" exactly when the
\* text "Highest Bid" is absent from the page and "with bids" exactly when
\* it is present, whatever could be extracted of a minimum-bid table.
C18_SuffixByHighestBidText ==
    (Answered /\ ParsedPage.status_marker # None
              /\ ParsedStatus = TextOnAuction) =>
        /\ Val(handler.answer).suffix = "without bids"
               <=> ~TextHighestBidIn(ParsedPage)
        /\ Val(handler.answer).suffix = "with bids"
               <=> TextHighestBidIn(ParsedPage)

\* C19: a countdown of d days, h hours and m minutes is shown as
\* "{d}d {h}h {m}m" whenever d > 0 and as "{h}h {m}m" only when d = 0.
C19_CountdownFormat ==
    Answered =>
        \A d \in 0..MaxDays, h \in CountdownHours, m \in CountdownMinutes :
            ParsedPage.countdown = Some([days |-> DaysText(d),
                                         hours |-> TwoDigits(h),
                                         mins |-> TwoDigits(m)]) =>
                Val(handler.answer).ends_in =
                    Some(IF d > 0
                         THEN str_int(d) \o <<"d", " ">> \o str_int(h)
                                  \o <<"h", " ">> \o str_int(m) \o <<"m">>
                         ELSE str_int(h) \o <<"h", " ">> \o str_int(m) \o <<"m">>)

\* C20: on each path that makes a counterparty (the bidder of an auction,
\* the owner of a name for sale, the owner of a sold name) a display name
\* that starts with "EQ" or "UQ" never gets a Telegram button.
C20_NoHandleForAddress ==
    handler.html_text # None =>
        \A i \in 1..Len(handler.keyboard_rows) :
            LET row == handler.keyboard_rows[i]
            IN  (row[1].kind = "wallet" /\ Len(row) = 2) =>
                    /\ ~startswith(row[1].name, <<"E", "Q">>)
                    /\ ~startswith(row[1].name, <<"U", "Q">>)


\* The rows of a keyboard that hold the button of the auction source.
SourceRows(rows) ==
    { i \in 1..Len(rows) : rows[i][1].kind = "auction_source" }

\* C21: a request to tonapi.io is issued, and a button of the auction
\* source is made, only for a page whose status is "On auction" and whose
\* text lacks "Ownership History".
C21_ProvenanceOnlyForAuctions ==
    /\ handler.html_text = None =>
           /\ Len(handler.requests) <= 1
           /\ handler.pc \notin {"dns", "auction_config"}
    /\ (/\ handler.html_text # None
        /\ \/ Len(handler.requests) > 1
           \/ handler.pc \in {"dns", "auction_config"}
           \/ SourceRows(handler.keyboard_rows) # {}) =>
           /\ ParsedPage.status_marker # None
           /\ ParsedStatus = TextOnAuction
           /\ ~ParsedPage.ownership_history

C21_Witness ==
    /\ Answered
    /\ ParsedPage.status_marker # None
    /\ ParsedStatus = TextOnAuction
    /\ ~ParsedPage.ownership_history
    /\ Len(handler.requests) = 3
    /\ SourceRows(Val(handler.answer).keyboard) # {}

\* The DNS request ended without an address, the request for the auction
\* configuration without a body.
DnsFailed(r) == r.raised \/ r.status # 200 \/ r.address = None
AuctionFailed(r) == r.raised \/ r.status # 200

\* C22: the two requests to tonapi.io are made one after the other and
\* never repeated: the second is issued only when the first ended in
\* status 200 with an address, and a request that fails at either step
\* leaves the answer without the button of the auction source but with
\* everything else that was extracted.
C22_SequentialNoRetry ==
    [][ /\ \A r \in DnsResponses :
               TonapiDnsDone(r) =>
                   IF DnsFailed(r)
                   THEN /\ handler'.pc = "answered"
                        /\ handler'.requests = handler.requests
                        /\ Val(handler'.answer).article = "result"
                        /\ Val(handler'.answer).keyboard = handler.keyboard_rows
                        /\ SourceRows(Val(handler'.answer).keyboard) = {}
                   ELSE /\ handler'.pc = "auction_config"
                        /\ handler'.requests =
                               <<"fragment.com", "tonapi.io/dns",
                                 "tonapi.io/get_auction_config">>
        /\ \A r \in AuctionResponses :
               TonapiAuctionDone(r) =>
                   /\ handler'.pc = "answered"
                   /\ handler'.requests = handler.requests
                   /\ Val(handler'.answer).article = "result"
                   /\ AuctionFailed(r) =>
                          Val(handler'.answer).keyboard = handler.keyboard_rows
        /\ Len(handler'.requests) > Len(handler.requests) =>
               /\ Len(handler'.requests) = Len(handler.requests) + 1
               /\ handler'.requests \in
                      { <<"fragment.com">>,
                        <<"fragment.com", "tonapi.io/dns">>,
                        <<"fragment.com", "tonapi.io/dns",
                          "tonapi.io/get_auction_config">> }
      ]_vars

C22_Witness ==
    /\ Answered
    /\ handler.requests = <<"fragment.com", "tonapi.io/dns">>
    /\ Val(handler.answer).article = "result"
    /\ Val(handler.answer).keyboard # <<>>
    /\ SourceRows(Val(handler.answer).keyboard) = {}


\* A numeric query for the amount 100 that was answered from a composite
\* of 3.0.
Converted100At3(t) ==
    /\ tasks[t].pc = "answering"
    /\ tasks[t].kind = "numeric"
    /\ tasks[t].amount = <<100, 1>>
    /\ tasks[t].ton_price = Some(300000)

\* C23 as stated: with source1 = 2.5 and source2 = 3.5 the composite is
\* 3.0, and the query "100" is answered with 100 USD = 33.33 TON and
\* 100 TON = $300.
C23_ConversionOf100 ==
    /\ (rates_cache.source1 = Some(250000) /\ rates_cache.source2 = Some(350000))
           => rates_cache.ton_usd = Some(300000)
    /\ \A t \in Tasks :
           Converted100At3(t) =>
               tasks[t].message = Some([amount |-> <<"1", "0", "0">>,
                                        ton |-> <<"3", "3", ".", "3", "3">>,
                                        usd |-> <<"3", "0", "0">>])

\* C23 as amended: the TON amount is shown to TON_DECIMAL_PLACES = 4
\* decimals, 100 USD = 33.3333 TON, and 100 TON = $300.
C23_ConversionOf100FourDecimals ==
    /\ (rates_cache.source1 = Some(250000) /\ rates_cache.source2 = Some(350000))
           => rates_cache.ton_usd = Some(300000)
    /\ \A t \in Tasks :
           Converted100At3(t) =>
               tasks[t].message = Some([amount |-> <<"1", "0", "0">>,
                                        ton |-> <<"3", "3", ".", "3", "3", "3", "3">>,
                                        usd |-> <<"3", "0", "0">>])

C23_Witness ==
    /\ rates_cache.source1 = Some(250000)
    /\ rates_cache.source2 = Some(350000)
    /\ rates_cache.ton_usd = Some(300000)
    /\ \E t \in Tasks : Converted100At3(t) /\ tasks[t].message # None


\* C24: every price button (listed price, minimum bid, highest bid, buy
\* now, sale price) carries an amount that is not empty: none is made
\* when the TON amount and the USD amount are both absent or empty.
C24_QuoteHasAmount ==
    handler.html_text # None =>
        \A i \in 1..Len(handler.keyboard_rows) :
            LET button == handler.keyboard_rows[i][1]
            IN  /\ button.kind = "price" =>
                       Truthy(button.ton) \/ Truthy(button.usd)
                /\ button.kind = "sale_price" => button.price # ""
                /\ button.kind = "buy_now" => button.ton # <<>>


\* A step assigns a key of the rate cache, or of the floor-price cache:
\* a value or the set of written keys changes, or the age starts anew.
RateWritten ==
    \/ [rates_cache EXCEPT !.age = 0]' # [rates_cache EXCEPT !.age = 0]
    \/ rates_cache'.age < rates_cache.age
FloorWritten ==
    \/ [floor_price_cache EXCEPT !.age = 0]' # [floor_price_cache EXCEPT !.age = 0]
    \/ floor_price_cache'.age < floor_price_cache.age

\* C25: the two caches are written only where an update_rates or an
\* update_floor_price ends, in the loop or in a refresh that a get()
\* started; a step of handle_query, with its extractors and its requests
\* to tonapi.io, and the answer to an invalid query leave every field of
\* both caches as it was.
C25_CachesWrittenByRefreshOnly ==
    [][ /\ (handler' # handler \/ outcome' # outcome) =>
               /\ rates_cache' = rates_cache
               /\ floor_price_cache' = floor_price_cache
        /\ RateWritten => RateRefreshEnds
        /\ FloorWritten => FloorRefreshEnds
      ]_vars

C25_Witness ==
    /\ Answered
    /\ Len(handler.requests) = 3
    /\ outcome.class = "identifier"
    /\ rates_cache.ton_usd # None
    /\ floor_price_cache.price # None


\* The rows of a keyboard that begin with a wallet button.
WalletRows(rows) ==
    { i \in 1..Len(rows) : rows[i][1].kind = "wallet" }

\* C26 as stated: on every page the owner of a name for sale is extracted
\* exactly when the bidder of an auction would be, a row of fewer than
\* three cells included, and under the same display name.
C26_OwnerAsBidder ==
    (Answered /\ ParsedPage.status_marker # None /\ ParsedStatus = TextForSale) =>
        LET bidder == most_recent_wallet_info(ParsedPage, FALSE)
            keyboard == Val(handler.answer).keyboard
        IN  /\ bidder # None <=> WalletRows(keyboard) # {}
            /\ \A i \in WalletRows(keyboard) :
                   keyboard[i][1].name = Val(bidder)[1].name

\* C26 as amended: on a page whose most recent row has at least three
\* cells the owner is extracted exactly when the bidder would be, under
\* the same display name when that is not empty (an empty name is shown as
\* "Unknown Bidder" for a bidder and left empty for an owner); a row of
\* fewer than three cells gives a bidder and no owner.
C26_OwnerAsBidderOfThreeCells ==
    (Answered /\ ParsedPage.status_marker # None /\ ParsedStatus = TextForSale) =>
        LET bidder == most_recent_wallet_info(ParsedPage, FALSE)
            keyboard == Val(handler.answer).keyboard
            cells == IF ParsedPage.bid_row = None THEN 0
                     ELSE Val(ParsedPage.bid_row).cells
        IN  /\ cells >= 3 => (bidder # None <=> WalletRows(keyboard) # {})
            /\ cells < 3 => WalletRows(keyboard) = {}
            /\ \A i \in WalletRows(keyboard) :
                   IF keyboard[i][1].name # <<>>
                   THEN keyboard[i][1].name = Val(bidder)[1].name
                   ELSE Val(bidder)[1].name = UnknownBidder

C26_Witness ==
    /\ Answered
    /\ ParsedPage.status_marker # None
    /\ ParsedStatus = TextForSale
    /\ ParsedPage.bid_row # None
    /\ Val(ParsedPage.bid_row).cells < 3
    /\ most_recent_wallet_info(ParsedPage, FALSE) # None
    /\ WalletRows(Val(handler.answer).keyboard) = {}


\* C27: the cache age get_floor_price returns with a floor price is the
\* number of seconds since that price was last refreshed with success,
\* also when the refresh that get_floor_price started has failed and the
\* price held before is returned.
C27_FloorAgeOfReturnedValue ==
    [][ \A t \in Tasks :
            (ReturnsFromGetFloorPrice(t) /\ floor_price_cache'.price # None) =>
                tasks'[t].cache_age =
                    Some(floor_price_cache'.age \div TicksPerSecond)
      ]_vars


\* C28: update_rates assigns last_update each time it runs, also when both
\* sources have failed; so once a composite is set, a round in which both
\* fail keeps the composite, and for the TTL that follows get_ton_price
\* starts no refresh and returns that composite.
C28_FailedRoundStampsCache ==
    [][ /\ RateRefreshEnds =>
               /\ rates_cache'.age = 0
               /\ "last_update" \in rates_cache'.w
               /\ (rate_fetched' = <<None, None>> /\ rates_cache.ton_usd # None) =>
                      rates_cache'.ton_usd = rates_cache.ton_usd
        /\ \A t \in Tasks :
               (/\ CallsGetTonPrice(t)
                /\ rate_fetched = <<None, None>>
                /\ rates_cache.ton_usd # None
                /\ rates_cache.age <= RateTTL) =>
                   /\ tasks'[t].rate_inflight = 0
                   /\ tasks'[t].kind = "numeric" =>
                          tasks'[t].ton_price = rates_cache.ton_usd
      ]_vars

\* A numeric query was answered with the composite of an earlier round,
\* within the TTL after a round in which both sources failed.
C28_Witness ==
    /\ rate_fetched = <<None, None>>
    /\ rates_cache.ton_usd # None
    /\ rates_cache.age > 0
    /\ rates_cache.age <= RateTTL
    /\ \E t \in Tasks :
           /\ tasks[t].pc = "answering"
           /\ tasks[t].kind = "numeric"
           /\ tasks[t].ton_price = rates_cache.ton_usd
           /\ tasks[t].result = <<"price_conversion">>


\* C29: a numeric query never divides by zero: whatever the rate cache
\* holds, a composite of 0 or none at all included, the query is answered,
\* and with the result for missing price data when the composite is 0 or
\* unset.
C29_NoDivisionByZero ==
    \A t \in Tasks :
        (tasks[t].kind = "numeric" /\ tasks[t].pc \in {"answering", "failed"}) =>
            /\ tasks[t].pc = "answering"
            /\ tasks[t].result \in {<<"price_error">>, <<"price_conversion">>}
            /\ tasks[t].ton_price \in {None, Some(0)} <=>
                   tasks[t].result = <<"price_error">>

C29_Witness ==
    /\ rates_cache.ton_usd = Some(0)
    /\ \E t \in Tasks :
           /\ tasks[t].kind = "numeric"
           /\ tasks[t].pc = "answering"
           /\ tasks[t].ton_price = Some(0)
           /\ tasks[t].result = <<"price_error">>


\* The value of a text of digits with at most one period in it, the
\* digits read as one integer over the power of ten of the decimals.
PlainNumber(s) ==
    /\ \E i \in 1..Len(s) : s[i] \in Digits
    /\ Cardinality({ i \in 1..Len(s) : s[i] \in {",", "."} }) <= 1

\* C30: the classifier answers every query, an empty one first, then a
\* numeric one: a query that without its spaces is made of digits, commas
\* and periods only is numeric, and its amount is the number the text
\* reads as with its comma taken for a period, or 0 when that is no
\* number, as for "1.2.3", "," and "1,000.5".
C30_NumericPrecedence ==
    outcome.class # "none" =>
        LET spaceless == replace(query, " ")
        IN  /\ outcome.class \in {"empty", "numeric", "identifier", "invalid"}
            /\ strip(query) = <<>> => outcome.class = "empty"
            /\ (/\ strip(query) # <<>>
                /\ \A i \in 1..Len(spaceless) :
                       spaceless[i] \in Digits \cup {",", "."}) =>
                   /\ outcome.class = "numeric"
                   /\ IF PlainNumber(spaceless)
                      THEN /\ Val(outcome.amount)[1] =
                                 digits_value(SelectSeq(spaceless,
                                     LAMBDA ch : ch \in Digits))
                           /\ \E k \in 0..(Len(spaceless) - 1) :
                                 /\ Val(outcome.amount)[2] = Power10(k)
                                 /\ \A i \in 1..Len(spaceless) :
                                       spaceless[i] \in {",", "."} =>
                                           i = Len(spaceless) - k
                      ELSE outcome.amount = Some(<<0, 1>>)
            /\ process_number_input(<<"1", ".", "2", ".", "3">>) = <<0, 1>>
            /\ process_number_input(<<",">>) = <<0, 1>>
            /\ process_number_input(<<"1", ",", "0", "0", "0", ".", "5">>) = <<0, 1>>

C30_Witness ==
    /\ query = <<"1", " ", ",", "2">>
    /\ outcome.class = "numeric"
    /\ outcome.amount = Some(<<12, 10>>)

====
